---- MODULE Spec2Model ----
(***************************************************************************)
(* FAT32 filesystem engine over a raw 512-byte-sector block device.        *)
(* The device is modelled byte for byte: a device is a function from LBA   *)
(* to sector, a sector a function from byte offset 0..511 to a byte.       *)
(* Every operator below is translated from the Rust source it names.       *)
(***************************************************************************)
EXTENDS Integers, Sequences, FiniteSets, TLC

(***************************************************************************)
(* Program constants.                                                      *)
(***************************************************************************)
SectorSize == 512
EOC_MIN == 268435448
FatMask == 268435455
max_iters == 1000000
SlotsPerSector == 16
SlotSize == 32

(***************************************************************************)
(* Bounds of the model.                                                    *)
(***************************************************************************)
MaxWrites == 2
MaxMidLen == 3
MaxFatWrites == 1
FatDevSectors == 5
MaxDirPrefix == 2
ListDevSectors == 6
SmallSectors == 8
BigSectors == 134

Offsets == 0..(SectorSize - 1)

Min(a, b) == IF a < b THEN a ELSE b

\* With(v, LAMBDA x : e) is `let x = v; e`
With(v, F(_)) == F(v)

(***************************************************************************)
(* Results.  Every fallible function returns a record with a tag: "Ok" or  *)
(* the name of the Error variant; "Panic" is an arithmetic-overflow panic  *)
(* of a build with overflow checks; "Diverge" marks a loop that never      *)
(* ends.                                                                   *)
(***************************************************************************)
Ok(v) == [tag |-> "Ok", val |-> v]
Err(e) == [tag |-> e, val |-> <<>>]

(***************************************************************************)
(* Little-endian helpers.                                                  *)
(***************************************************************************)
le_u16(x, off) == x[off] + 256 * x[off + 1]

\* TLC's integers are 32-bit signed.  A u32 read from the disk that
\* may exceed 2^31 - 1 (a directory entry's first cluster and size) is kept as
\* its two 16-bit halves, hi * 65536 + lo; FAT entries are 28-bit and are
\* plain integers.
le_u32(x, off) == [hi |-> le_u16(x, off + 2), lo |-> le_u16(x, off)]

\* le_u32(x) & 0x0FFFFFFF
le_u32_masked(x, off) ==
    x[off] + 256 * x[off + 1] + 65536 * x[off + 2] + 16777216 * (x[off + 3] % 16)

Wide(hi, lo) == [hi |-> hi, lo |-> lo]

\* the value of a wide integer that fits TLC's integers
Small(w) == w.hi * 65536 + w.lo

WideZero == Wide(0, 0)

\* Fixed-size byte arrays ([u8; N]) are functions on 0..N-1; Vec<u8>, &[u8] and
\* &str are sequences of bytes.
\* v.to_le_bytes() of an n-byte integer
to_le_bytes(v, n) == [k \in 0..(n - 1) |-> (v \div (256 ^ k)) % 256]

\* buf[off..off+n].copy_from_slice(src) on a 512-byte buffer
copy_from_slice(buf, off, n, src) ==
    [i \in Offsets |-> IF i >= off /\ i < off + n THEN src[i - off] ELSE buf[i]]

\* the n-byte window buf[off..off+n]
Slice(buf, off, n) == [k \in 0..(n - 1) |-> buf[off + k]]

write_le_u32(buf, off, v) == copy_from_slice(buf, off, 4, to_le_bytes(v, 4))

RECURSIVE BitAnd(_, _)
BitAnd(a, b) ==
    IF a = 0 \/ b = 0 THEN 0
    ELSE (IF a % 2 = 1 /\ b % 2 = 1 THEN 1 ELSE 0) + 2 * BitAnd(a \div 2, b \div 2)

(***************************************************************************)
(* The block device (MemDevice): data.len() / 512 sectors.                 *)
(***************************************************************************)
NumSectors(d) == Cardinality(DOMAIN d)

\* off + 512 > data.len(), with off = lba * 512 and data.len() = 512 * sectors
read_sector(d, lba) ==
    IF lba >= NumSectors(d) THEN Err("Io")
    ELSE Ok(d[lba])

write_sector(d, lba, buf) ==
    IF lba >= NumSectors(d) THEN Err("Io")
    ELSE Ok([d EXCEPT ![lba] = buf])

(***************************************************************************)
(* Boot sector parsing.                                                    *)
(***************************************************************************)
\* (mutant) the validation with the signature test after the field tests
BpbValidate_signature_last(boot, f) ==
    IF f.bytes_per_sector # 512 THEN Err("InvalidBootSector")
    ELSE IF f.root_entry_count # 0 THEN Err("NotFat32")
    ELSE IF f.fat_size_16 # 0 THEN Err("NotFat32")
    ELSE Err("InvalidBootSector")

\* Bpb::parse after the fields are read
BpbValidate(boot, f) ==
    IF boot[510] # 85 \/ boot[511] # 170 THEN Err("InvalidBootSector")
    ELSE IF f.bytes_per_sector # 512 THEN Err("InvalidBootSector")
    ELSE IF f.root_entry_count # 0 THEN Err("NotFat32")
    ELSE IF f.fat_size_16 # 0 THEN Err("NotFat32")
    ELSE IF f.fat_size_32 = WideZero \/ (f.root_cluster.hi = 0 /\ f.root_cluster.lo < 2)
         THEN Err("InvalidBootSector")
    ELSE IF f.sectors_per_cluster = 0
            \/ BitAnd(f.sectors_per_cluster, f.sectors_per_cluster - 1) # 0
         THEN Err("InvalidBootSector")
    ELSE IF f.reserved_sectors = 0 \/ f.num_fats = 0 THEN Err("InvalidBootSector")
    ELSE Ok([bytes_per_sector |-> f.bytes_per_sector,
             sectors_per_cluster |-> f.sectors_per_cluster,
             reserved_sectors |-> f.reserved_sectors,
             num_fats |-> f.num_fats,
             total_sectors_32 |-> Small(f.total_sectors_32),
             fat_size_32 |-> Small(f.fat_size_32),
             root_cluster |-> Small(f.root_cluster),
             fsinfo_sector |-> f.fsinfo_sector])

\* (mutant) the parse with the 32-bit FAT size test before the FAT32
\* discriminators
BpbParse_geometry_first(boot) ==
    IF boot[510] # 85 \/ boot[511] # 170 THEN Err("InvalidBootSector")
    ELSE IF le_u16(boot, 11) # 512 THEN Err("InvalidBootSector")
    ELSE IF le_u32(boot, 36) = WideZero THEN Err("InvalidBootSector")
    ELSE IF le_u16(boot, 17) # 0 \/ le_u16(boot, 22) # 0 THEN Err("NotFat32")
    ELSE Err("InvalidBootSector")

\* The 32-bit fields of an accepted boot sector are below 2^31 in every image
\* of the model and are plain integers in the Bpb.
BpbParse(boot) ==
    BpbValidate(boot,
        [bytes_per_sector |-> le_u16(boot, 11),
         sectors_per_cluster |-> boot[13],
         reserved_sectors |-> le_u16(boot, 14),
         num_fats |-> boot[16],
         root_entry_count |-> le_u16(boot, 17),
         fat_size_16 |-> le_u16(boot, 22),
         total_sectors_32 |-> le_u32(boot, 32),
         fat_size_32 |-> le_u32(boot, 36),
         root_cluster |-> le_u32(boot, 44),
         fsinfo_sector |-> le_u16(boot, 48)])

(***************************************************************************)
(* Geometry and the FAT table.                                             *)
(***************************************************************************)
WrappedLba == 2147483647

fat_start_lba(b) == b.reserved_sectors

data_start_lba(b) == fat_start_lba(b) + b.num_fats * b.fat_size_32

\* cluster - 2 is a u32 subtraction: for cluster < 2 it wraps to 2^32 - 2 or
\* 2^32 - 1 in a build without overflow checks (the callers decide what a build
\* with overflow checks does).  The wrapped address, at least 2^32 - 2, lies
\* beyond the end of every device; WrappedLba stands for it.
cluster_to_lba(b, cluster) ==
    IF cluster < 2 THEN WrappedLba
    ELSE data_start_lba(b) + (cluster - 2) * b.sectors_per_cluster

read_fat_entry(d, b, cluster) ==
    With(read_sector(d, fat_start_lba(b) + ((cluster * 4) \div 512)), LAMBDA r :
        IF r.tag # "Ok" THEN r
        ELSE Ok(le_u32_masked(r.val, (cluster * 4) % 512)))

\* Ok(device after the write) or Err
write_fat_entry(d, b, cluster, value) ==
    With(fat_start_lba(b) + ((cluster * 4) \div 512), LAMBDA sector :
    With(read_sector(d, sector), LAMBDA r :
        IF r.tag # "Ok" THEN r
        ELSE write_sector(d, sector,
                          write_le_u32(r.val, (cluster * 4) % 512, value % (FatMask + 1)))))

\* write_fat_entry for a value given as the halves of the u32: line 62 masks
\* it to 28 bits
write_fat_entry_u32(d, b, cluster, value) ==
    write_fat_entry(d, b, cluster, (value.hi % 4096) * 65536 + value.lo)

\* what read_fat_entry(d, b, x) returns for a cluster x whose FAT sector exists
FatEntryAt(d, b, x) ==
    le_u32_masked(d[fat_start_lba(b) + ((x * 4) \div 512)], (x * 4) % 512)

\* The scan loop of find_free_cluster from cluster c, in closed form.  The loop
\* reads the entry of c, c+1, ... (max_iters of them at most) and returns at the
\* first zero entry, or with Io at the first entry whose sector the device does
\* not have, or with NoSpace when the iterations are used up.  limit is the
\* last cluster the loop can read: the last iteration, or the last entry of the
\* device's last sector.
find_free_scan(d, b, c, limit) ==
    IF \E x \in c..limit : FatEntryAt(d, b, x) = 0
    THEN Ok(CHOOSE x \in c..limit :
                FatEntryAt(d, b, x) = 0 /\ \A y \in c..(x - 1) : FatEntryAt(d, b, y) # 0)
    ELSE IF limit < c + max_iters - 1 THEN Err("Io")
    ELSE Err("NoSpace")

find_free_cluster(d, b, start_from) ==
    With(IF start_from < 2 THEN 2 ELSE start_from, LAMBDA c :
        find_free_scan(d, b, c,
                       Min(c + max_iters - 1, (NumSectors(d) - fat_start_lba(b)) * 128 - 1)))

(***************************************************************************)
(* Directory entries.                                                      *)
(***************************************************************************)
ZeroName == [k \in 0..10 |-> 0]

\* (mutant) parse that takes the first cluster from its low half only
DirEntryParse_low_half(rec) ==
    IF rec[0] = 0 THEN Ok(<<>>)
    ELSE IF rec[0] = 229 \/ rec[11] = 15
         THEN Ok(<<[raw_name |-> ZeroName, attr |-> IF rec[0] = 229 THEN 0 ELSE rec[11],
                    first_cluster |-> WideZero, file_size |-> WideZero]>>)
    ELSE Ok(<<[raw_name |-> Slice(rec, 0, 11),
               attr |-> rec[11],
               first_cluster |-> Wide(0, le_u16(rec, 26)),
               file_size |-> le_u32(rec, 28)]>>)

\* Ok(<<>>) is Ok(None), Ok(<<e>>) is Ok(Some(e))
DirEntryParse(rec) ==
    IF rec[0] = 0 THEN Ok(<<>>)
    ELSE IF rec[0] = 229
         THEN Ok(<<[raw_name |-> ZeroName, attr |-> 0,
                    first_cluster |-> WideZero, file_size |-> WideZero]>>)
    ELSE IF rec[11] = 15
         THEN Ok(<<[raw_name |-> ZeroName, attr |-> rec[11],
                    first_cluster |-> WideZero, file_size |-> WideZero]>>)
    ELSE Ok(<<[raw_name |-> Slice(rec, 0, 11),
               attr |-> rec[11],
               first_cluster |-> Wide(le_u16(rec, 20), le_u16(rec, 26)),
               file_size |-> le_u32(rec, 28)]>>)

build_short_file(name_83, first_cluster, file_size) ==
    [i \in 0..31 |->
        IF i < 11 THEN name_83[i]
        ELSE IF i = 11 THEN 32
        ELSE IF i \in 20..21 THEN to_le_bytes((first_cluster \div 65536) % 65536, 2)[i - 20]
        ELSE IF i \in 26..27 THEN to_le_bytes(first_cluster % 65536, 2)[i - 26]
        ELSE IF i \in 28..31 THEN to_le_bytes(file_size, 4)[i - 28]
        ELSE 0]

\* build_short_file for a first cluster and a size given as the halves of the
\* u32
build_short_file_u32(name_83, first_cluster, file_size) ==
    [i \in 0..31 |->
        IF i < 11 THEN name_83[i]
        ELSE IF i = 11 THEN 32
        ELSE IF i \in 20..21 THEN to_le_bytes(first_cluster.hi, 2)[i - 20]
        ELSE IF i \in 26..27 THEN to_le_bytes(first_cluster.lo, 2)[i - 26]
        ELSE IF i \in 28..29 THEN to_le_bytes(file_size.lo, 2)[i - 28]
        ELSE IF i \in 30..31 THEN to_le_bytes(file_size.hi, 2)[i - 30]
        ELSE 0]

to_ascii_uppercase_none(ch) == ch

to_ascii_uppercase(ch) == IF ch \in 97..122 THEN ch - 32 ELSE ch

ok_char(c) == c \in 65..90 \/ c \in 48..57 \/ c = 95 \/ c = 45

\* s.split_once('.'): the index of the first '.', or 0
FirstDot(s) ==
    IF \E i \in 1..Len(s) : s[i] = 46
    THEN CHOOSE i \in 1..Len(s) : s[i] = 46 /\ \A j \in 1..(i - 1) : s[j] # 46
    ELSE 0

\* to_short_name_83 once the name is split into name and ext
short_name_of(name, ext) ==
    IF Len(name) = 0 \/ Len(name) > 8 \/ Len(ext) > 3 THEN Err("InvalidName")
    ELSE IF \E i \in 1..Len(name) : ~ok_char(to_ascii_uppercase(name[i]))
         THEN Err("InvalidName")
    ELSE IF \E i \in 1..Len(ext) : ~ok_char(to_ascii_uppercase(ext[i]))
         THEN Err("InvalidName")
    ELSE Ok([k \in 0..10 |->
                IF k < Len(name) THEN to_ascii_uppercase(name[k + 1])
                ELSE IF k >= 8 /\ k - 8 < Len(ext) THEN to_ascii_uppercase(ext[k - 8 + 1])
                ELSE 32])

to_short_name_83(s) ==
    With(FirstDot(s), LAMBDA dot :
        IF dot = 0 THEN short_name_of(s, <<>>)
        ELSE short_name_of(SubSeq(s, 1, dot - 1), SubSeq(s, dot + 1, Len(s))))

(***************************************************************************)
(* The filesystem facade (Fat32).  b is the handle's bpb, d its device.    *)
(***************************************************************************)
clusters_for_len(b, len) ==
    (len + (b.sectors_per_cluster * 512) - 1) \div (b.sectors_per_cluster * 512)

\* list_root's test of a parsed entry: deleted and long-name placeholders
ListSkips_lfn_only(e) == e.attr = 15

ListSkips(e) ==
    e.attr = 15
    \/ (e.first_cluster = WideZero /\ e.file_size = WideZero /\ e.raw_name = ZeroName)

\* list_root, the loop `for i in 0..16` over one sector buffer, from slot i.
\* done: the scan met the end of the directory and list_root returns Ok(out).
RECURSIVE list_slots(_, _, _)
list_slots(buf, i, out) ==
    IF i = SlotsPerSector THEN [done |-> FALSE, out |-> out]
    ELSE
    With(DirEntryParse(Slice(buf, i * SlotSize, SlotSize)).val, LAMBDA p :
        IF p = <<>> THEN [done |-> TRUE, out |-> out]
        ELSE IF ListSkips(p[1]) THEN list_slots(buf, i + 1, out)
        ELSE list_slots(buf, i + 1, Append(out, p[1])))

\* list_root, the loop over the sectors of one cluster, from sector s.
\* ret: list_root returns res; otherwise the walk goes on with out.
RECURSIVE list_sectors(_, _, _, _, _)
list_sectors(d, b, base_lba, s, out) ==
    IF s = b.sectors_per_cluster THEN [ret |-> FALSE, res |-> Ok(out), out |-> out]
    ELSE
    With(read_sector(d, base_lba + s), LAMBDA r :
        IF r.tag # "Ok" THEN [ret |-> TRUE, res |-> r, out |-> out]
        ELSE With(list_slots(r.val, 0, out), LAMBDA sl :
                IF sl.done THEN [ret |-> TRUE, res |-> Ok(sl.out), out |-> sl.out]
                ELSE list_sectors(d, b, base_lba, s + 1, sl.out)))

\* list_root after the sectors of `cluster` are scanned: the FAT entry decides
list_root_next(next, cluster, out) ==
    IF next.tag # "Ok" THEN [ret |-> TRUE, res |-> next, cluster |-> cluster, out |-> out]
    ELSE IF next.val >= EOC_MIN
         THEN [ret |-> TRUE, res |-> Ok(out), cluster |-> cluster, out |-> out]
    ELSE IF next.val < 2
         THEN [ret |-> TRUE, res |-> Err("Corrupt"), cluster |-> cluster, out |-> out]
    ELSE [ret |-> FALSE, res |-> Ok(out), cluster |-> next.val, out |-> out]

\* One iteration of list_root's `loop`, at `cluster` with `out` collected.
\* ret: list_root returns res; otherwise the loop goes on at cluster/out.
list_root_iter(d, b, cluster, out) ==
    With(list_sectors(d, b, cluster_to_lba(b, cluster), 0, out), LAMBDA sc :
        IF sc.ret THEN [ret |-> TRUE, res |-> sc.res, cluster |-> cluster, out |-> sc.out]
        ELSE list_root_next(read_fat_entry(d, b, cluster), cluster, sc.out))

\* list_root's loop from `cluster`.  The walk reads the device and never writes
\* it, so an iteration that comes back to a cluster it has visited repeats for
\* ever: the call does not return ("Diverge").
RECURSIVE list_root_loop(_, _, _, _, _)
list_root_loop(d, b, cluster, out, seen) ==
    IF cluster \in seen THEN Err("Diverge")
    ELSE
    With(list_root_iter(d, b, cluster, out), LAMBDA it :
        IF it.ret THEN it.res
        ELSE list_root_loop(d, b, it.cluster, it.out, seen \cup {cluster}))

list_root(d, b) == list_root_loop(d, b, b.root_cluster, <<>>, {})

\* read_file_root, the loop over the sectors of one cluster, from sector s
RECURSIVE read_sectors(_, _, _, _, _, _)
read_sectors(d, b, base_lba, s, remaining, data) ==
    IF s = b.sectors_per_cluster \/ remaining = 0
    THEN [ret |-> FALSE, res |-> Ok(data), remaining |-> remaining, data |-> data]
    ELSE
    With(read_sector(d, base_lba + s), LAMBDA r :
    With(Min(remaining, 512), LAMBDA take :
        IF r.tag # "Ok" THEN [ret |-> TRUE, res |-> r, remaining |-> remaining, data |-> data]
        ELSE read_sectors(d, b, base_lba, s + 1, remaining - take,
                          data \o [k \in 1..take |-> r.val[k - 1]])))

\* (mutant) read_file_root without the end-of-chain test: the walk follows the
\* end-of-chain value as if it were a cluster
read_file_next_follows_eoc(next) ==
    IF next.tag # "Ok" THEN next ELSE Ok(next.val)

\* read_file_root after a cluster is read with bytes outstanding
read_file_next(next) ==
    IF next.tag # "Ok" THEN next
    ELSE IF next.val >= EOC_MIN THEN Err("Corrupt")
    ELSE Ok(next.val)

\* read_file_root's `while remaining > 0`.  checked: the build panics on
\* arithmetic overflow (cluster - 2 with cluster < 2); otherwise it wraps.
RECURSIVE read_file_loop(_, _, _, _, _, _)
read_file_loop(d, b, cluster, remaining, data, checked) ==
    IF remaining = 0 THEN Ok(data)
    ELSE IF cluster < 2 /\ checked THEN Err("Panic")
    ELSE
    With(read_sectors(d, b, cluster_to_lba(b, cluster), 0, remaining, data), LAMBDA sc :
        IF sc.ret THEN sc.res
        ELSE IF sc.remaining = 0 THEN Ok(sc.data)
        ELSE With(read_file_next(read_fat_entry(d, b, cluster)), LAMBDA next :
                IF next.tag # "Ok" THEN next
                ELSE read_file_loop(d, b, next.val, sc.remaining, sc.data, checked)))

\* the first entry of the listing with the target name: <<>> or <<e>>
RECURSIVE FindEntry(_, _, _)
FindEntry(entries, target, i) ==
    IF i > Len(entries) THEN <<>>
    ELSE IF entries[i].raw_name = target THEN <<entries[i]>>
    ELSE FindEntry(entries, target, i + 1)

\* read_file_root once the entry is found
read_found(d, b, found, checked) ==
    IF found = <<>> THEN Err("NotFound")
    ELSE IF found[1].first_cluster.hi = 0 /\ found[1].first_cluster.lo < 2
         THEN Err("Corrupt")
    ELSE IF found[1].file_size = WideZero THEN Ok(<<>>)
    \* a first cluster of 2^28 or more: its sectors are at an LBA of 2^28 or
    \* more, which no device of the model has, and the first read_sector fails
    ELSE IF found[1].first_cluster.hi >= 4096 THEN Err("Io")
    ELSE read_file_loop(d, b, Small(found[1].first_cluster), Small(found[1].file_size),
                        <<>>, checked)

read_file_root(d, b, name, checked) ==
    With(to_short_name_83(name), LAMBDA target :
        IF target.tag # "Ok" THEN target
        ELSE With(list_root(d, b), LAMBDA entries :
                IF entries.tag # "Ok" THEN entries
                ELSE read_found(d, b, FindEntry(entries.val, target.val, 1), checked)))

\* Results of the writing functions carry the device as the call left it:
\* nothing is rolled back.
WOk(d, chain) == [tag |-> "Ok", dev |-> d, chain |-> chain]
WErr(e, d, chain) == [tag |-> e, dev |-> d, chain |-> chain]

\* write_root_dir_entry_first_free, the scan of one sector buffer from slot i:
\* the index of the first slot whose first byte is 0x00 or 0xE5, or 16
RECURSIVE first_free_slot(_, _)
first_free_slot(buf, i) ==
    IF i = SlotsPerSector THEN SlotsPerSector
    ELSE IF buf[i * SlotSize] = 0 \/ buf[i * SlotSize] = 229 THEN i
    ELSE first_free_slot(buf, i + 1)

\* write_root_dir_entry_first_free: the record goes to slot i of the sector
\* buffer buf read from lba, and the sector is written back
put_dir_entry(d, lba, buf, i, rec) ==
    With(write_sector(d, lba, copy_from_slice(buf, i * SlotSize, SlotSize, rec)), LAMBDA w :
        IF w.tag = "Ok" THEN WOk(w.val, <<>>) ELSE WErr(w.tag, d, <<>>))

\* write_root_dir_entry_first_free, the loop over the sectors of one cluster
RECURSIVE dir_sectors(_, _, _, _, _)
dir_sectors(d, b, base_lba, s, rec) ==
    IF s = b.sectors_per_cluster THEN [ret |-> FALSE, res |-> WOk(d, <<>>)]
    ELSE
    With(read_sector(d, base_lba + s), LAMBDA r :
        IF r.tag # "Ok" THEN [ret |-> TRUE, res |-> WErr(r.tag, d, <<>>)]
        ELSE With(first_free_slot(r.val, 0), LAMBDA i :
                IF i < SlotsPerSector
                THEN [ret |-> TRUE, res |-> put_dir_entry(d, base_lba + s, r.val, i, rec)]
                ELSE dir_sectors(d, b, base_lba, s + 1, rec)))

\* write_root_dir_entry_first_free after the sectors of `cluster` are scanned
write_root_dir_next(d, next, cluster) ==
    IF next.tag # "Ok" THEN [ret |-> TRUE, res |-> WErr(next.tag, d, <<>>), cluster |-> cluster]
    ELSE IF next.val >= EOC_MIN
         THEN [ret |-> TRUE, res |-> WErr("DirFull", d, <<>>), cluster |-> cluster]
    ELSE IF next.val < 2
         THEN [ret |-> TRUE, res |-> WErr("Corrupt", d, <<>>), cluster |-> cluster]
    ELSE [ret |-> FALSE, res |-> WOk(d, <<>>), cluster |-> next.val]

\* One iteration of write_root_dir_entry_first_free's `loop`
write_root_dir_iter(d, b, cluster, rec) ==
    With(dir_sectors(d, b, cluster_to_lba(b, cluster), 0, rec), LAMBDA sc :
        IF sc.ret THEN [ret |-> TRUE, res |-> sc.res, cluster |-> cluster]
        ELSE write_root_dir_next(d, read_fat_entry(d, b, cluster), cluster))

\* The loop from `cluster`.  Until it finds a slot the loop only reads the
\* device, so coming back to a visited cluster repeats for ever ("Diverge").
RECURSIVE write_root_dir_loop(_, _, _, _, _)
write_root_dir_loop(d, b, cluster, rec, seen) ==
    IF cluster \in seen THEN WErr("Diverge", d, <<>>)
    ELSE
    With(write_root_dir_iter(d, b, cluster, rec), LAMBDA it :
        IF it.ret THEN it.res
        ELSE write_root_dir_loop(d, b, it.cluster, rec, seen \cup {cluster}))

write_root_dir_entry_first_free(d, b, rec) ==
    write_root_dir_loop(d, b, b.root_cluster, rec, {})

\* write_file_root step 1, one round of `for _ in 0..clusters_needed`: reserve
\* the free cluster found
reserve_cluster(d, b, c, chain) ==
    IF c.tag # "Ok" THEN WErr(c.tag, d, chain)
    ELSE With(write_fat_entry(d, b, c.val, 268435455), LAMBDA w :
            IF w.tag # "Ok" THEN WErr(w.tag, d, chain)
            ELSE WOk(w.val, Append(chain, c.val)))

\* write_file_root step 1: n clusters still to allocate, scanning from
\* next_search, chain allocated so far
RECURSIVE alloc_chain(_, _, _, _, _)
alloc_chain(d, b, n, next_search, chain) ==
    IF n = 0 THEN WOk(d, chain)
    ELSE
    With(reserve_cluster(d, b, find_free_cluster(d, b, next_search), chain), LAMBDA a :
        IF a.tag # "Ok" THEN a
        ELSE alloc_chain(a.dev, b, n - 1, a.chain[Len(a.chain)] + 1, a.chain))

\* write_file_root, `for i in 0..chain.len()`: link chain[i] to chain[i+1]
\* (chain is 1-based here: the model's i is the code's i + 1)
RECURSIVE link_chain(_, _, _, _)
link_chain(d, b, chain, i) ==
    IF i > Len(chain) THEN WOk(d, chain)
    ELSE
    With(write_fat_entry(d, b, chain[i],
                         IF i + 1 <= Len(chain) THEN chain[i + 1] ELSE 268435455), LAMBDA w :
        IF w.tag # "Ok" THEN WErr(w.tag, d, chain)
        ELSE link_chain(w.val, b, chain, i + 1))

\* write_file_root step 2, the sector buffer written at content offset `offset`
data_sector(content, offset) ==
    [i \in Offsets |->
        IF i < Min(Len(content) - offset, 512) THEN content[offset + i + 1] ELSE 0]

\* write_file_root step 2: the j-th sector written (cluster chain[j / spc],
\* sector j % spc of it); offset is min(j * 512, len) when it is written
RECURSIVE write_data(_, _, _, _, _)
write_data(d, b, chain, content, j) ==
    IF j = Len(chain) * b.sectors_per_cluster THEN WOk(d, chain)
    ELSE
    With(write_sector(d,
                      cluster_to_lba(b, chain[(j \div b.sectors_per_cluster) + 1])
                          + (j % b.sectors_per_cluster),
                      data_sector(content, Min(j * 512, Len(content)))), LAMBDA w :
        IF w.tag # "Ok" THEN WErr(w.tag, d, chain)
        ELSE write_data(w.val, b, chain, content, j + 1))

\* (mutant) step 3 with the record's first cluster left at 0
write_entry_no_first_cluster(w, b, short, content) ==
    With(write_root_dir_entry_first_free(
             w.dev, b, build_short_file(short, 0, Len(content))), LAMBDA e :
        [tag |-> e.tag, dev |-> e.dev, chain |-> w.chain])

\* write_file_root step 3
write_entry(w, b, short, content) ==
    With(write_root_dir_entry_first_free(
             w.dev, b, build_short_file(short, w.chain[1], Len(content))), LAMBDA e :
        [tag |-> e.tag, dev |-> e.dev, chain |-> w.chain])

\* write_file_root steps 1 (link), 2 and 3 once the chain is allocated
write_allocated(a, b, short, content) ==
    IF a.tag # "Ok" THEN a
    ELSE With(link_chain(a.dev, b, a.chain, 1), LAMBDA l :
            IF l.tag # "Ok" THEN l
            ELSE With(write_data(l.dev, b, l.chain, content, 0), LAMBDA w :
                    IF w.tag # "Ok" THEN w
                    ELSE write_entry(w, b, short, content)))

\* (mutant) write_file_root without the clusters_needed == 0 test, allocating
\* one cluster for an empty content
write_file_root_no_zero_test(d, b, name, content) ==
    With(to_short_name_83(name), LAMBDA short :
        IF short.tag # "Ok" THEN WErr(short.tag, d, <<>>)
        ELSE write_allocated(
                 alloc_chain(d, b,
                             IF Len(content) = 0 THEN 1 ELSE clusters_for_len(b, Len(content)),
                             2, <<>>),
                 b, short.val, content))

write_file_root(d, b, name, content) ==
    With(to_short_name_83(name), LAMBDA short :
        IF short.tag # "Ok" THEN WErr(short.tag, d, <<>>)
        ELSE IF clusters_for_len(b, Len(content)) = 0 THEN WErr("InvalidName", d, <<>>)
        ELSE write_allocated(
                 alloc_chain(d, b, clusters_for_len(b, Len(content)), 2, <<>>),
                 b, short.val, content))

\* (mutant) mount that keeps only the low 16 bits of the root cluster
mount_root_cluster_16(d) ==
    With(read_sector(d, 0), LAMBDA boot :
        IF boot.tag # "Ok" THEN boot
        ELSE With(BpbParse(boot.val), LAMBDA p :
                IF p.tag # "Ok" THEN p
                ELSE Ok([p.val EXCEPT !.root_cluster = @ % 65536])))

mount(d) ==
    With(read_sector(d, 0), LAMBDA boot :
        IF boot.tag # "Ok" THEN boot ELSE BpbParse(boot.val))

(***************************************************************************)
(* Disk images the volume is mounted from.  Geometry of every image: one   *)
(* reserved sector (the boot sector), one FAT of one sector (128 entries), *)
(* root directory at cluster 2, so the FAT is sector 1 and the data region *)
(* starts at sector 2.  As in the repository's test image, the device may  *)
(* be larger than the clusters its FAT describes.                          *)
(***************************************************************************)
ZeroSector == [i \in Offsets |-> 0]

Put16(buf, off, v) == copy_from_slice(buf, off, 2, to_le_bytes(v, 2))

Put32(buf, off, v) == copy_from_slice(buf, off, 4, to_le_bytes(v, 4))

BootSector(spc, total) ==
    LET s0 == [ZeroSector EXCEPT ![510] = 85, ![511] = 170, ![13] = spc, ![16] = 1]
        s1 == Put16(s0, 11, 512)
        s2 == Put16(s1, 14, 1)
        s3 == Put32(s2, 32, total)
        s4 == Put32(s3, 36, 1)
        s5 == Put32(s4, 44, 2)
    IN  Put16(s5, 48, 1)

\* a FAT sector: the entries given by the function e, every other entry fill
FatSector(e, fill) ==
    [i \in Offsets |->
        to_le_bytes(IF (i \div 4) \in DOMAIN e THEN e[i \div 4] ELSE fill, 4)[i % 4]]

\* a directory sector holding the given slots, the rest of it zero
DirSector(slots) ==
    [i \in Offsets |->
        IF (i \div SlotSize) < Len(slots) THEN slots[(i \div SlotSize) + 1][i % SlotSize] ELSE 0]

\* n sectors: boot sector, FAT sector, then the given data sectors, then zeros
Device(n, boot, fat, data) ==
    [lba \in 0..(n - 1) |->
        IF lba = 0 THEN boot
        ELSE IF lba = 1 THEN fat
        ELSE IF lba - 1 <= Len(data) THEN data[lba - 1]
        ELSE ZeroSector]

\* names, as the bytes of the &str
NameHello == <<72, 69, 76, 76, 79, 46, 84, 88, 84>>
NameA == <<97, 46, 116, 120, 116>>
NameBad == <<88, 46, 65, 66, 67, 68>>
Names == {NameHello, NameA, NameBad}

ShortA == to_short_name_83(NameA).val

\* file contents
Pattern(n) == [i \in 1..n |-> 1 + ((i * 7) % 250)]
ContentAbc == <<97, 98, 99>>
Contents(b) == {<<>>, ContentAbc, Pattern(b.sectors_per_cluster * 512 + 1)}

\* directory slots: a file entry as this program encodes it, a deleted entry,
\* a long-name part, an empty file
FileSlot(name83, fc, size) == build_short_file(name83, fc, size)
Tombstone(name83, fc, size) == [build_short_file(name83, fc, size) EXCEPT ![0] = 229]
LfnSlot == [i \in 0..31 |-> IF i = 11 THEN 15 ELSE 65]
EmptyFileSlot(k) == build_short_file([i \in 0..10 |-> IF i = 0 THEN 70 ELSE IF i = 1 THEN 65 + k ELSE 32], 0, 0)

Reserved01 == (0 :> 268435448) @@ (1 :> 268435455)

ImageIds ==
    {"fresh", "fresh2", "used", "fullfat", "fullbig", "dirfull", "dirfullbig",
     "shortchain", "badsucc", "filecycle", "rootcycle"}

Image(id) ==
    CASE id = "fresh" ->
            \* the test image: an empty root directory, every other cluster free
            Device(SmallSectors, BootSector(1, SmallSectors),
                   FatSector(Reserved01 @@ (2 :> 268435455), 0), <<>>)
      [] id = "fresh2" ->
            \* the same with two sectors per cluster
            Device(SmallSectors, BootSector(2, SmallSectors),
                   FatSector(Reserved01 @@ (2 :> 268435455), 0), <<>>)
      [] id = "used" ->
            \* a deleted entry, then A.TXT of 600 bytes in clusters 3 -> 4
            Device(SmallSectors, BootSector(1, SmallSectors),
                   FatSector(Reserved01 @@ (2 :> 268435455) @@ (3 :> 4) @@ (4 :> 268435455), 0),
                   <<DirSector(<<Tombstone(ShortA, 0, 0), FileSlot(ShortA, 3, 600)>>),
                     [i \in Offsets |-> 3], [i \in Offsets |-> 4]>>)
      [] id = "fullfat" ->
            \* every FAT entry non-zero, empty root directory
            Device(SmallSectors, BootSector(1, SmallSectors),
                   FatSector(Reserved01, 268435455), <<>>)
      [] id = "fullbig" ->
            \* every FAT entry non-zero, a deleted entry in the root directory,
            \* a device that extends beyond the clusters the FAT describes
            Device(BigSectors, BootSector(1, BigSectors),
                   FatSector(Reserved01, 268435455),
                   <<DirSector(<<Tombstone(ShortA, 5, 10)>>)>>)
      [] id = "dirfull" ->
            \* root chain 2 -> 3 -> end, every slot occupied
            Device(SmallSectors, BootSector(1, SmallSectors),
                   FatSector(Reserved01 @@ (2 :> 3) @@ (3 :> 268435455), 0),
                   <<DirSector([k \in 1..16 |-> LfnSlot]),
                     DirSector([k \in 1..16 |-> EmptyFileSlot(k)])>>)
      [] id = "dirfullbig" ->
            \* a full one-cluster root directory, every FAT entry non-zero, a
            \* device that extends beyond the clusters the FAT describes
            Device(BigSectors, BootSector(1, BigSectors),
                   FatSector(Reserved01, 268435455),
                   <<DirSector([k \in 1..16 |-> EmptyFileSlot(k)])>>)
      [] id = "shortchain" ->
            \* A.TXT records 1000 bytes, its chain is the single cluster 3
            Device(SmallSectors, BootSector(1, SmallSectors),
                   FatSector(Reserved01 @@ (2 :> 268435455) @@ (3 :> 268435455), 0),
                   <<DirSector(<<FileSlot(ShortA, 3, 1000)>>), [i \in Offsets |-> 3]>>)
      [] id = "badsucc" ->
            \* A.TXT records 1000 bytes, the FAT entry of its cluster 3 is 1
            Device(SmallSectors, BootSector(1, SmallSectors),
                   FatSector(Reserved01 @@ (2 :> 268435455) @@ (3 :> 1), 0),
                   <<DirSector(<<FileSlot(ShortA, 3, 1000)>>), [i \in Offsets |-> 3]>>)
      [] id = "filecycle" ->
            \* A.TXT records 1500 bytes, its chain is 3 -> 3
            Device(SmallSectors, BootSector(1, SmallSectors),
                   FatSector(Reserved01 @@ (2 :> 268435455) @@ (3 :> 3), 0),
                   <<DirSector(<<FileSlot(ShortA, 3, 1500)>>), [i \in Offsets |-> 3]>>)
      [] id = "rootcycle" ->
            \* root chain 2 -> 3 -> 2, every slot a long-name part
            Device(SmallSectors, BootSector(1, SmallSectors),
                   FatSector(Reserved01 @@ (2 :> 3) @@ (3 :> 2), 0),
                   <<DirSector([k \in 1..16 |-> LfnSlot]),
                     DirSector([k \in 1..16 |-> LfnSlot])>>)

(***************************************************************************)
(* The state machine: one mounted volume and the calls made on it.         *)
(***************************************************************************)
VARIABLES
    image,      \* which image the device was created from
    dev,        \* the block device
    fs,         \* the handle's parsed Bpb (<<>> before mount)
    pc,         \* "unmounted", "ready", or the loop a call is inside
    walk,       \* the cluster a call that is inside a loop is at
    call,       \* the last call: op, name, content and what it saw on entry
    result,     \* what the last call returned (Res)
    lastList,   \* the result of the last list_root since the last write
    lastWrite,  \* the last write_file_root call that returned Ok: name, content
    nwrites,    \* write_file_root calls made
    arg,        \* the input of a function that is applied on its own
    ret         \* what that function returned

\* the state of the mounted volume and of the calls made on it
volume == <<image, dev, fs, pc, walk, call, result, lastList, lastWrite, nwrites>>

vars == <<image, dev, fs, pc, walk, call, result, lastList, lastWrite, nwrites, arg, ret>>

NoWrite == [name |-> <<>>, content |-> <<>>]
NoCall ==
    [op |-> "none", name |-> <<>>, content |-> <<>>, pre |-> Err("none"), prior |-> NoWrite]
\* what a call returned: the tag, the bytes of a read, the entries of a listing,
\* and (not returned by the code) the chain a write allocated
Res(tag, data, entries, chain) ==
    [tag |-> tag, data |-> data, entries |-> entries, chain |-> chain]
NoResult == Res("none", <<>>, <<>>, <<>>)

Init ==
    /\ image \in ImageIds
    /\ dev = Image(image)
    /\ fs = <<>>
    /\ pc = "unmounted"
    /\ walk = 0
    /\ call = NoCall
    /\ result = NoResult
    /\ lastList = Err("none")
    /\ lastWrite = NoWrite
    /\ nwrites = 0
    /\ arg = <<>>
    /\ ret = <<>>

\* Fat32::mount
Mount ==
    /\ pc = "unmounted"
    /\ LET m == mount(dev)
       IN  /\ fs' = IF m.tag = "Ok" THEN m.val ELSE <<>>
           /\ pc' = IF m.tag = "Ok" THEN "ready" ELSE "failed"
           /\ call' = [NoCall EXCEPT !.op = "mount"]
           /\ result' = Res(m.tag, <<>>, <<>>, <<>>)
    /\ UNCHANGED <<image, dev, walk, lastList, lastWrite, nwrites, arg, ret>>

\* Fat32::list_root.  A call that does not return stays inside its loop.
ListRoot ==
    /\ pc = "ready"
    /\ LET r == list_root(dev, fs)
       IN  /\ call' = [NoCall EXCEPT !.op = "list", !.pre = lastList]
           /\ IF r.tag = "Diverge"
              THEN /\ pc' = "list_root"
                   /\ walk' = fs.root_cluster
                   /\ result' = NoResult
                   /\ UNCHANGED lastList
              ELSE /\ result' = Res(r.tag, <<>>, r.val, <<>>)
                   /\ lastList' = r
                   /\ UNCHANGED <<pc, walk>>
    /\ UNCHANGED <<image, dev, fs, lastWrite, nwrites, arg, ret>>

\* (mutant) read_file_root that stamps an access date into the first slot of
\* the root directory when it returns the file
ReadFileStamping(name, checked) ==
    /\ pc = "ready"
    /\ LET r == read_file_root(dev, fs, name, checked)
       IN  /\ call' = [NoCall EXCEPT !.op = "read", !.name = name]
           /\ result' = Res(r.tag, r.val, <<>>, <<>>)
           /\ dev' = IF r.tag = "Ok"
                     THEN [dev EXCEPT ![cluster_to_lba(fs, fs.root_cluster)][18] = 33]
                     ELSE dev
    /\ UNCHANGED <<image, fs, pc, walk, lastList, lastWrite, nwrites, arg, ret>>

\* Fat32::read_file_root, in a build with or without overflow checks
ReadFile(name, checked) ==
    /\ pc = "ready"
    /\ LET r == read_file_root(dev, fs, name, checked)
       IN  /\ call' = [NoCall EXCEPT !.op = "read", !.name = name]
           /\ IF r.tag = "Diverge"
              THEN /\ pc' = "list_root"
                   /\ walk' = fs.root_cluster
                   /\ result' = NoResult
              ELSE /\ result' = Res(r.tag, r.val, <<>>, <<>>)
                   /\ pc' = IF r.tag = "Panic" THEN "panicked" ELSE pc
                   /\ UNCHANGED walk
    /\ UNCHANGED <<image, dev, fs, lastList, lastWrite, nwrites, arg, ret>>

\* Fat32::write_file_root.  call.pre is list_root's result on entry, call.prior
\* the last write before this one that returned Ok.
WriteFile(name, content) ==
    /\ pc = "ready"
    /\ nwrites < MaxWrites
    /\ LET w == write_file_root(dev, fs, name, content)
       IN  /\ call' = [op |-> "write", name |-> name, content |-> content,
                       pre |-> list_root(dev, fs), prior |-> lastWrite]
           /\ dev' = w.dev
           /\ IF w.tag = "Diverge"
              THEN /\ pc' = "write_root_dir"
                   /\ walk' = fs.root_cluster
                   /\ result' = Res("none", <<>>, <<>>, w.chain)
              ELSE /\ result' = Res(w.tag, <<>>, <<>>, w.chain)
                   /\ UNCHANGED <<pc, walk>>
           /\ lastWrite' = IF w.tag = "Ok" THEN [name |-> name, content |-> content]
                           ELSE lastWrite
    /\ nwrites' = nwrites + 1
    /\ lastList' = Err("none")
    /\ UNCHANGED <<image, fs, arg, ret>>

\* One iteration of list_root's loop in a call that is inside it.  The entries
\* collected so far do not steer the loop and are not kept.
ListLoop ==
    /\ pc = "list_root"
    /\ LET it == list_root_iter(dev, fs, walk, <<>>)
       IN  IF it.ret
           THEN /\ pc' = "ready"
                /\ result' = Res(it.res.tag, <<>>, <<>>, <<>>)
                /\ UNCHANGED walk
           ELSE /\ walk' = it.cluster
                /\ UNCHANGED <<pc, result>>
    /\ UNCHANGED <<image, dev, fs, call, lastList, lastWrite, nwrites, arg, ret>>

\* one iteration of write_root_dir_entry_first_free's loop in a call inside it
DirLoop ==
    /\ pc = "write_root_dir"
    /\ LET it == write_root_dir_iter(dev, fs, walk,
                                      build_short_file(to_short_name_83(call.name).val,
                                                       result.chain[1], Len(call.content)))
       IN  IF it.ret
           THEN /\ pc' = "ready"
                /\ result' = Res(it.res.tag, <<>>, <<>>, <<>>)
                /\ dev' = it.res.dev
                /\ UNCHANGED walk
           ELSE /\ walk' = it.cluster
                /\ UNCHANGED <<pc, result, dev>>
    /\ UNCHANGED <<image, fs, call, lastList, lastWrite, nwrites, arg, ret>>

Next ==
    \/ Mount
    \/ ListRoot
    \/ \E name \in Names, checked \in BOOLEAN : ReadFile(name, checked)
    \/ /\ pc = "ready"
       /\ \E name \in Names : \E content \in Contents(fs) : WriteFile(name, content)
    \/ ListLoop
    \/ DirLoop

Spec == Init /\ [][Next]_vars

\* A call inside a loop keeps executing it: the program is single-threaded and
\* nothing preempts it.
FairSpec == Spec /\ WF_vars(ListLoop) /\ WF_vars(DirLoop)

(***************************************************************************)
(* Vocabulary of the properties.                                           *)
(***************************************************************************)
ValidName(name) == to_short_name_83(name).tag = "Ok"

\* the first entry of a successful listing l that carries the name: <<>> or <<e>>
Listed(l, name) == FindEntry(l.val, to_short_name_83(name).val, 1)

\* a u32 length as the listing reports it
SizeOf(n) == Wide(n \div 65536, n % 65536)

\* the state is the one write_file_root(name, content) left, and the call
\* returned Ok for a non-empty content
WroteOk == call.op = "write" /\ result.tag = "Ok" /\ call.content # <<>>

(***************************************************************************)
(* C1.  Write/read round trip.                                             *)
(***************************************************************************)
\* C1: after write_file_root(name, content) succeeds for a name that was not
\* in the root listing and a non-empty content, read_file_root(name) returns
\* exactly content, and the entry list_root returns for the name records
\* size = len(content).
C1_WriteReadRoundTrip ==
    (WroteOk /\ call.pre.tag = "Ok" /\ Listed(call.pre, call.name) = <<>>)
    => /\ \A checked \in BOOLEAN :
              read_file_root(dev, fs, call.name, checked) = Ok(call.content)
       /\ With(list_root(dev, fs), LAMBDA l :
              /\ l.tag = "Ok"
              /\ Listed(l, call.name) # <<>>
              /\ Listed(l, call.name)[1].file_size = SizeOf(Len(call.content)))

(***************************************************************************)
(* C2.  Create or overwrite.                                               *)
(***************************************************************************)
\* C2: after write_file_root(name, c1) succeeds and then
\* write_file_root(name, c2) succeeds, both contents non-empty,
\* read_file_root(name) returns c2, the content written last.
C2_OverwriteReturnsLatest ==
    (/\ WroteOk
     /\ call.prior.content # <<>>
     /\ to_short_name_83(call.prior.name) = to_short_name_83(call.name))
    => \A checked \in BOOLEAN :
           read_file_root(dev, fs, call.name, checked) = Ok(call.content)

(***************************************************************************)
(* C3.  Multi-cluster write.                                               *)
(***************************************************************************)
ClusterBytes(b) == b.sectors_per_cluster * SectorSize

\* ceil(n / m), as the least k with k * m >= n
CeilDiv(n, m) == CHOOSE k \in 0..n : k * m >= n /\ \A j \in 0..(k - 1) : j * m < n

\* the FAT links the clusters of chain in order and ends the chain after the
\* last one
LinkedInOrder(d, b, chain) ==
    \A i \in 1..Len(chain) :
        With(read_fat_entry(d, b, chain[i]), LAMBDA e :
            /\ e.tag = "Ok"
            /\ IF i < Len(chain) THEN e.val = chain[i + 1] ELSE e.val >= EOC_MIN)

\* C3: a successful write_file_root of L > 0 bytes allocates exactly
\* ceil(L / (sectors_per_cluster * 512)) clusters; the new directory entry
\* names the first of them, the FAT leads from each to the next in allocation
\* order and holds an end-of-chain value (>= 0x0FFFFFF8) for the last; for
\* L = sectors_per_cluster * 512 + 1 there are at least 2 clusters and
\* read_file_root returns all L bytes.
C3_MultiClusterWrite ==
    WroteOk
    => /\ Len(result.chain) = CeilDiv(Len(call.content), ClusterBytes(fs))
       /\ LinkedInOrder(dev, fs, result.chain)
       /\ (call.pre.tag = "Ok" /\ Listed(call.pre, call.name) = <<>>)
          => /\ Listed(list_root(dev, fs), call.name) # <<>>
             /\ Listed(list_root(dev, fs), call.name)[1].first_cluster
                    = SizeOf(result.chain[1])
             /\ Len(call.content) = ClusterBytes(fs) + 1
                => /\ Len(result.chain) >= 2
                   /\ \A checked \in BOOLEAN :
                          read_file_root(dev, fs, call.name, checked) = Ok(call.content)

(***************************************************************************)
(* C4.  Free-cluster exhaustion.                                           *)
(***************************************************************************)
\* the step is a call of write_file_root with a valid name and a non-empty
\* content
WriteStep ==
    /\ nwrites' = nwrites + 1
    /\ ValidName(call'.name)
    /\ call'.content # <<>>

\* every entry of the FAT from cluster 2 upward is non-zero
FatFull(d, b) == \A c \in 2..(b.fat_size_32 * 128 - 1) : FatEntryAt(d, b, c) # 0

\* C4: on a volume whose FAT entries from cluster 2 upward are all non-zero,
\* every write_file_root with a valid name and a non-empty content fails with
\* NoSpace.
C4_FullFatNoSpace ==
    [][(WriteStep /\ FatFull(dev, fs)) => result'.tag = "NoSpace"]_vars

(***************************************************************************)
(* C5, C6.  Chains that do not cover the recorded size.                    *)
(***************************************************************************)
\* every sector of the cluster is on the device
OnDevice(d, b, cluster) ==
    cluster_to_lba(b, cluster) + b.sectors_per_cluster <= NumSectors(d)

\* The clusters of the chain that starts at c, when every cluster of it is on
\* the device and the FAT leads from each to a successor in 2..EOC_MIN-1 and
\* from the last to an end-of-chain value; <<>> for every other chain.
RECURSIVE ChainOf(_, _, _, _)
ChainOf(d, b, c, fuel) ==
    IF fuel = 0 \/ c < 2 \/ ~OnDevice(d, b, c) THEN <<>>
    ELSE With(read_fat_entry(d, b, c), LAMBDA e :
            IF e.tag # "Ok" THEN <<>>
            ELSE IF e.val >= EOC_MIN THEN <<c>>
            ELSE With(ChainOf(d, b, e.val, fuel - 1), LAMBDA rest :
                    IF rest = <<>> THEN <<>> ELSE <<c>> \o rest))

\* the entry read_file_root(name) finds: <<>> or <<e>>
EntryFor(d, b, name) ==
    IF ~ValidName(name) \/ list_root(d, b).tag # "Ok" THEN <<>>
    ELSE Listed(list_root(d, b), name)

\* the file's chain ends in end-of-chain before its recorded size is covered
SizeExceedsChain(d, b, name) ==
    With(EntryFor(d, b, name), LAMBDA e :
        /\ e # <<>>
        /\ e[1].first_cluster.hi = 0
        /\ e[1].file_size.hi = 0
        /\ With(ChainOf(d, b, e[1].first_cluster.lo, NumSectors(d)), LAMBDA ch :
              ch # <<>> /\ e[1].file_size.lo > Len(ch) * ClusterBytes(b)))

\* C5: read_file_root of a file whose recorded size is larger than what its
\* cluster chain provides (the chain reaches an end-of-chain value with bytes
\* outstanding) fails with Corrupt and returns no data.
C5_SizeBeyondChainIsCorrupt ==
    (call.op = "read" /\ SizeExceedsChain(dev, fs, call.name))
    => result = Res("Corrupt", <<>>, <<>>, <<>>)

C5_Witness ==
    /\ call.op = "read"
    /\ SizeExceedsChain(dev, fs, call.name)
    /\ result.tag = "Corrupt"

\* following the chain from c with `remaining` bytes outstanding, the walk
\* meets a FAT entry below 2 while bytes are still outstanding
RECURSIVE MeetsLowSuccessor(_, _, _, _, _)
MeetsLowSuccessor(d, b, c, remaining, fuel) ==
    IF fuel = 0 \/ c < 2 \/ ~OnDevice(d, b, c) \/ remaining <= ClusterBytes(b) THEN FALSE
    ELSE With(read_fat_entry(d, b, c), LAMBDA e :
            /\ e.tag = "Ok"
            /\ \/ e.val < 2
               \/ /\ e.val < EOC_MIN
                  /\ MeetsLowSuccessor(d, b, e.val, remaining - ClusterBytes(b), fuel - 1))

HasLowSuccessor(d, b, name) ==
    With(EntryFor(d, b, name), LAMBDA e :
        /\ e # <<>>
        /\ e[1].first_cluster.hi = 0
        /\ e[1].file_size.hi = 0
        /\ MeetsLowSuccessor(d, b, e[1].first_cluster.lo, e[1].file_size.lo, NumSectors(d)))

\* C6: when read_file_root follows a chain with bytes outstanding and the FAT
\* entry of the current cluster is 0 or 1, it fails with Corrupt; it never
\* turns a cluster number below 2 into a sector address.
C6_LowSuccessorIsCorrupt ==
    (call.op = "read" /\ HasLowSuccessor(dev, fs, call.name))
    => result.tag = "Corrupt"

(***************************************************************************)
(* C7.  Directory full.                                                    *)
(***************************************************************************)
\* the root directory's chain (<<>> unless it ends in end-of-chain)
RootChain(d, b) == ChainOf(d, b, b.root_cluster, NumSectors(d))

\* the sectors of the root directory, along its chain
RootSectors(d, b) ==
    [i \in 1..Len(RootChain(d, b)) |->
        [s \in 0..(b.sectors_per_cluster - 1) |->
            d[cluster_to_lba(b, RootChain(d, b)[i]) + s]]]

\* the root chain ends in end-of-chain and no slot of it starts with 0x00 or
\* 0xE5
RootFull(d, b) ==
    /\ RootChain(d, b) # <<>>
    /\ \A i \in 1..Len(RootChain(d, b)) : \A s \in 0..(b.sectors_per_cluster - 1) :
           \A k \in 0..(SlotsPerSector - 1) :
               RootSectors(d, b)[i][s][k * SlotSize] \notin {0, 229}

\* C7: when every slot of the root directory is occupied and its chain ends
\* in end-of-chain, write_file_root with a valid name and a non-empty content
\* fails with DirFull; the root directory's sectors, its chain and
\* list_root's result are as before, and the clusters the call allocated keep
\* non-zero FAT entries.
C7_DirFullLeavesDirectory ==
    [][(WriteStep /\ RootFull(dev, fs))
       => /\ result'.tag = "DirFull"
          /\ RootChain(dev', fs) = RootChain(dev, fs)
          /\ RootSectors(dev', fs) = RootSectors(dev, fs)
          /\ list_root(dev', fs) = list_root(dev, fs)
          /\ result'.chain # <<>>
          /\ \A i \in 1..Len(result'.chain) :
                 FatEntryAt(dev', fs, result'.chain[i]) # 0]_vars

(***************************************************************************)
(* C8.  Every call returns.                                                *)
(***************************************************************************)
\* a call is inside a loop of list_root or write_root_dir_entry_first_free
InsideLoop == pc \in {"list_root", "write_root_dir"}

\* C8: every call of list_root, read_file_root and write_file_root returns
\* after finitely many sector reads and writes, whatever the FAT and the root
\* directory hold, cyclic chains included.
C8_EveryCallReturns == InsideLoop ~> ~InsideLoop

(***************************************************************************)
(* C9.  Listing is idempotent; list and read do not write.                 *)
(***************************************************************************)
\* C9: a list_root call that follows another with no write_file_root in
\* between (read_file_root calls allowed) returns the same entries in the
\* same order, and no step of list_root or read_file_root changes a sector.
C9_ListingIdempotent ==
    [][call'.op \in {"list", "read"}
       => /\ dev' = dev
          /\ (call'.op = "list" /\ call'.pre.tag # "none" /\ result'.tag # "none")
             => [tag |-> result'.tag, val |-> result'.entries] = call'.pre]_vars

C9_Witness ==
    /\ call.op = "list"
    /\ call.pre.tag = "Ok"
    /\ Len(call.pre.val) >= 1
    /\ result.tag = "Ok"
    /\ nwrites >= 1

(***************************************************************************)
(* C10.  InvalidName changes nothing.                                      *)
(***************************************************************************)
\* C10: write_file_root returns InvalidName when the name fails 8.3
\* normalization or the content is empty, and a call that returns InvalidName
\* has written nothing: every sector is as before and list_root returns what
\* it returned before.
C10_InvalidNameChangesNothing ==
    [][nwrites' = nwrites + 1
       => /\ (~ValidName(call'.name) \/ call'.content = <<>>)
             => result'.tag = "InvalidName"
          /\ result'.tag = "InvalidName"
             => dev' = dev /\ list_root(dev', fs) = call'.pre]_vars

C10_Witness ==
    /\ call.op = "write"
    /\ result.tag = "InvalidName"
    /\ ValidName(call.name)
    /\ call.content = <<>>
    /\ call.pre.tag = "Ok"
    /\ Len(call.pre.val) >= 1

(***************************************************************************)
(* C11.  Listed files have a first cluster.                                *)
(***************************************************************************)
\* the images of a freshly formatted volume with an empty root directory
FreshIds == {"fresh", "fresh2"}

\* every entry of the listing l with a size above 0 has a first cluster >= 2
SizedEntriesHaveCluster(l) ==
    \A i \in 1..Len(l.val) :
        l.val[i].file_size # WideZero
        => ~(l.val[i].first_cluster.hi = 0 /\ l.val[i].first_cluster.lo < 2)

\* C11: in every state reached from a freshly formatted, empty volume by
\* write_file_root calls (successful or failed), every entry list_root returns
\* with file size > 0 has first cluster >= 2.
C11_SizedEntriesHaveCluster ==
    (image \in FreshIds /\ pc = "ready")
    => /\ list_root(dev, fs).tag = "Ok"
       /\ SizedEntriesHaveCluster(list_root(dev, fs))

C11_Witness ==
    /\ image \in FreshIds
    /\ WroteOk
    /\ nwrites = 2
    /\ Len(list_root(dev, fs).val) = 2
    /\ \A i \in 1..2 : list_root(dev, fs).val[i].file_size # WideZero

(***************************************************************************)
(* Boot sectors on their own: Bpb::parse and mount applied to every boot   *)
(* sector of BootArgs.                                                     *)
(***************************************************************************)
\* no volume: the functions below are applied on their own
NoVolume ==
    /\ image = "none"
    /\ dev = <<>>
    /\ fs = <<>>
    /\ pc = "none"
    /\ walk = 0
    /\ call = NoCall
    /\ result = NoResult
    /\ lastList = Err("none")
    /\ lastWrite = NoWrite
    /\ nwrites = 0

NotApplied == [op |-> "none", res |-> Err("none")]

\* the fields a boot sector is built from
BootFields ==
    [sig : {<<85, 170>>, <<170, 85>>, <<85, 0>>},
     bytes_per_sector : {512, 1024},
     sectors_per_cluster : {0, 1, 3, 128},
     reserved_sectors : {0, 32},
     num_fats : {0, 2},
     root_entry_count : {0, 224},
     fat_size_16 : {0, 9},
     total_sectors_32 : {200, 70000},
     fat_size_32 : {0, 1, 65537},
     root_cluster : {1, 2, 65538},
     fsinfo_sector : {1}]

\* the 512 bytes with the fields at their offsets
BootOf(f) ==
    LET s0 == [ZeroSector EXCEPT ![510] = f.sig[1], ![511] = f.sig[2],
                                 ![13] = f.sectors_per_cluster, ![16] = f.num_fats]
        s1 == Put16(s0, 11, f.bytes_per_sector)
        s2 == Put16(s1, 14, f.reserved_sectors)
        s3 == Put16(s2, 17, f.root_entry_count)
        s4 == Put16(s3, 22, f.fat_size_16)
        s5 == Put32(s4, 32, f.total_sectors_32)
        s6 == Put32(s5, 36, f.fat_size_32)
        s7 == Put32(s6, 44, f.root_cluster)
    IN  Put16(s7, 48, f.fsinfo_sector)

BootArgs == {[f |-> f, boot |-> BootOf(f)] : f \in BootFields}

InitBpb ==
    /\ NoVolume
    /\ arg \in BootArgs
    /\ ret = NotApplied

\* Bpb::parse(&boot)
ParseBoot ==
    /\ ret = NotApplied
    /\ ret' = [op |-> "parse", res |-> BpbParse(arg.boot)]
    /\ UNCHANGED <<volume, arg>>

\* Fat32::mount of a device whose sector 0 is the boot sector
MountBoot ==
    /\ ret = NotApplied
    /\ ret' = [op |-> "mount", res |-> mount([lba \in 0..0 |-> arg.boot])]
    /\ UNCHANGED <<volume, arg>>

NextBpb == ParseBoot \/ MountBoot

SpecBpb == InitBpb /\ [][NextBpb]_vars

GoodSignature(f) == f.sig = <<85, 170>>

\* C12: for every 512-byte buffer whose bytes 510..511 are not (0x55, 0xAA),
\* Bpb::parse and mount fail with InvalidBootSector, whatever the other
\* fields hold, fields that would give NotFat32 included.
C12_BadSignatureIsInvalid ==
    (ret.op # "none" /\ ~GoodSignature(arg.f)) => ret.res = Err("InvalidBootSector")

C12_Witness ==
    /\ ret.op = "mount"
    /\ ~GoodSignature(arg.f)
    /\ arg.f.bytes_per_sector = 512
    /\ arg.f.root_entry_count # 0
    /\ ret.res.tag = "InvalidBootSector"

\* the geometry tests that follow the FAT32 discriminators
LaterFieldsValid(f) ==
    /\ f.fat_size_32 # 0
    /\ f.root_cluster >= 2
    /\ f.sectors_per_cluster \in {1, 2, 4, 8, 16, 32, 64, 128}
    /\ f.reserved_sectors # 0
    /\ f.num_fats # 0

\* C13: for every boot sector with a good signature, bytes-per-sector 512,
\* root-entry-count 0, legacy FAT size 0 and valid geometry fields, Bpb::parse
\* and mount succeed and every field of the returned Bpb equals the field the
\* sector was built from.
C13_ValidBootSectorAccepted ==
    (/\ ret.op # "none"
     /\ GoodSignature(arg.f)
     /\ arg.f.bytes_per_sector = 512
     /\ arg.f.root_entry_count = 0
     /\ arg.f.fat_size_16 = 0
     /\ LaterFieldsValid(arg.f))
    => ret.res = Ok([bytes_per_sector |-> arg.f.bytes_per_sector,
                     sectors_per_cluster |-> arg.f.sectors_per_cluster,
                     reserved_sectors |-> arg.f.reserved_sectors,
                     num_fats |-> arg.f.num_fats,
                     total_sectors_32 |-> arg.f.total_sectors_32,
                     fat_size_32 |-> arg.f.fat_size_32,
                     root_cluster |-> arg.f.root_cluster,
                     fsinfo_sector |-> arg.f.fsinfo_sector])

C13_Witness ==
    /\ ret.op = "mount"
    /\ ret.res.tag = "Ok"
    /\ ret.res.val.root_cluster = 65538
    /\ ret.res.val.fat_size_32 = 65537
    /\ ret.res.val.total_sectors_32 = 70000
    /\ ret.res.val.sectors_per_cluster = 128

\* C14: with a good signature and bytes-per-sector 512, a non-zero
\* root-entry-count or legacy FAT size fails with NotFat32 even when later
\* fields are invalid too; with both zero, every later violation (32-bit FAT
\* size 0, root cluster < 2, sectors-per-cluster 0 or no power of two,
\* reserved-sector or FAT count 0) fails with InvalidBootSector.
C14_FirstFailingTestDecides ==
    (ret.op # "none" /\ GoodSignature(arg.f) /\ arg.f.bytes_per_sector = 512)
    => /\ (arg.f.root_entry_count # 0 \/ arg.f.fat_size_16 # 0)
          => ret.res = Err("NotFat32")
       /\ (arg.f.root_entry_count = 0 /\ arg.f.fat_size_16 = 0 /\ ~LaterFieldsValid(arg.f))
          => ret.res = Err("InvalidBootSector")

C14_Witness ==
    /\ ret.op = "parse"
    /\ GoodSignature(arg.f)
    /\ arg.f.bytes_per_sector = 512
    /\ arg.f.fat_size_16 # 0
    /\ arg.f.fat_size_32 = 0
    /\ arg.f.root_cluster = 1
    /\ arg.f.sectors_per_cluster = 3
    /\ arg.f.reserved_sectors = 0
    /\ ret.res.tag = "NotFat32"

(***************************************************************************)
(* to_short_name_83 applied to names drawn from a bounded set: a run of    *)
(* valid characters, then up to MaxMidLen characters of any kind, then a   *)
(* valid tail, so that long bases, long extensions, several dots and       *)
(* foreign characters all occur.                                           *)
(***************************************************************************)
NameAlphabet == {97, 122, 65, 57, 95, 45, 46, 32, 123}

SeqsUpTo(S, n) == UNION {[1..k -> S] : k \in 0..n}

NamePrefixes == {<<>>, <<81, 81, 81, 81, 81, 81>>, <<113, 113, 113, 113, 113, 113, 113>>}

NameTails == {<<>>, <<116, 120>>, <<116, 120, 116>>}

NameArgs == {pre \o mid \o post : pre \in NamePrefixes, mid \in SeqsUpTo(NameAlphabet, MaxMidLen),
                                  post \in NameTails}

InitName == NoVolume /\ arg \in NameArgs /\ ret = NotApplied

Normalize ==
    /\ ret = NotApplied
    /\ ret' = [op |-> "name", res |-> to_short_name_83(arg)]
    /\ UNCHANGED <<volume, arg>>

NextName == Normalize

SpecName == InitName /\ [][NextName]_vars

\* the claim's vocabulary, written from the sentence and not from the code
Folded(c) == IF c >= 97 /\ c <= 122 THEN c - 32 ELSE c

UpperCased(s) == [i \in 1..Len(s) |-> Folded(s[i])]

DotsOf(s) == {i \in 1..Len(s) : s[i] = 46}

BaseOf(s) ==
    IF DotsOf(s) = {} THEN s
    ELSE SubSeq(s, 1, (CHOOSE i \in DotsOf(s) : \A j \in DotsOf(s) : i <= j) - 1)

ExtOf(s) ==
    IF DotsOf(s) = {} THEN <<>>
    ELSE SubSeq(s, (CHOOSE i \in DotsOf(s) : \A j \in DotsOf(s) : i <= j) + 1, Len(s))

NameChars == (65..90) \cup (48..57) \cup {95, 45}

NameRejected(s) ==
    \/ Len(BaseOf(s)) = 0
    \/ Len(BaseOf(s)) > 8
    \/ Len(ExtOf(s)) > 3
    \/ Cardinality(DotsOf(s)) > 1
    \/ \E i \in 1..Len(s) : s[i] # 46 /\ Folded(s[i]) \notin NameChars

PaddedForm(s) ==
    [k \in 0..10 |->
        IF k < 8 THEN (IF k < Len(BaseOf(s)) THEN Folded(BaseOf(s)[k + 1]) ELSE 32)
        ELSE (IF k - 8 < Len(ExtOf(s)) THEN Folded(ExtOf(s)[k - 7]) ELSE 32)]

\* C15: to_short_name_83 gives a name and its upper-cased form the same
\* result; it fails with InvalidName when the base is empty or longer than 8,
\* the extension is longer than 3, there is more than one '.', or a character
\* is outside A-Z, 0-9, '_', '-' after case folding; otherwise it succeeds
\* with the folded base padded with spaces to 8 bytes and the folded
\* extension padded to 3.
C15_NameNormalization ==
    ret.op = "name"
    => /\ ret.res = to_short_name_83(UpperCased(arg))
       /\ NameRejected(arg) => ret.res = Err("InvalidName")
       /\ ~NameRejected(arg) => ret.res = Ok(PaddedForm(arg))

C15_Witness ==
    /\ ret.op = "name"
    /\ arg = <<97, 46, 116, 120, 116>>
    /\ ret.res = Ok([k \in 0..10 |-> <<65, 32, 32, 32, 32, 32, 32, 32, 84, 88, 84>>[k + 1]])

\* the 32-byte slots of the root directory in on-disk order along its chain
DirSlots(d, b) ==
    [n \in 1..(Len(RootChain(d, b)) * b.sectors_per_cluster * SlotsPerSector) |->
        Slice(RootSectors(d, b)[((n - 1) \div (b.sectors_per_cluster * SlotsPerSector)) + 1]
                               [((n - 1) % (b.sectors_per_cluster * SlotsPerSector)) \div SlotsPerSector],
              ((n - 1) % SlotsPerSector) * SlotSize, SlotSize)]

FreeSlots(slots) == {n \in 1..Len(slots) : slots[n][0] = 0 \/ slots[n][0] = 229}

\* a write_file_root call with a valid name and a non-empty content returned Ok
\* without entering a loop that does not end
WriteReturnsOk == WriteStep /\ pc' = "ready" /\ result'.tag = "Ok"

\* the record and the listed entry the call stores
WrittenRecord ==
    build_short_file(to_short_name_83(call'.name).val, result'.chain[1], Len(call'.content))

WrittenEntry ==
    [raw_name |-> to_short_name_83(call'.name).val, attr |-> 32,
     first_cluster |-> SizeOf(result'.chain[1]), file_size |-> SizeOf(Len(call'.content))]

\* C16: a successful write_file_root stores the encoded entry in the first
\* slot, in on-disk order along the root chain, whose first byte is 0x00 or
\* 0xE5, and changes no other directory slot; on a volume reached from an
\* empty root directory by writes only, list_root afterwards returns the
\* previous entries in the same order plus one new entry with the normalized
\* name, attribute 0x20, the first allocated cluster and the content's length.
C16_WriteAddsOneEntry ==
    [][WriteReturnsOk
       => /\ FreeSlots(DirSlots(dev, fs)) # {}
          /\ \A n \in FreeSlots(DirSlots(dev, fs)) :
                 (\A m \in FreeSlots(DirSlots(dev, fs)) : n <= m)
                 => DirSlots(dev', fs) = [DirSlots(dev, fs) EXCEPT ![n] = WrittenRecord]
          /\ image \in FreshIds
             => /\ call'.pre.tag = "Ok"
                /\ list_root(dev', fs) = Ok(Append(call'.pre.val, WrittenEntry))]_vars

(***************************************************************************)
(* The FAT accessor on its own: write_fat_entry and read_fat_entry called  *)
(* with any cluster and any u32 value on small volumes with one or two FAT *)
(* copies.                                                                 *)
(***************************************************************************)
FatImageIds == {"onefat", "twofats", "ones"}

TwoFatBoot ==
    BootOf([sig |-> <<85, 170>>, bytes_per_sector |-> 512, sectors_per_cluster |-> 1,
            reserved_sectors |-> 1, num_fats |-> 2, root_entry_count |-> 0,
            fat_size_16 |-> 0, total_sectors_32 |-> FatDevSectors, fat_size_32 |-> 1,
            root_cluster |-> 2, fsinfo_sector |-> 1])

FatImage(id) ==
    CASE id = "onefat" ->
            \* one FAT copy at LBA 1, the root directory at LBA 2
            Device(FatDevSectors, BootSector(1, FatDevSectors),
                   FatSector(Reserved01 @@ (2 :> 268435455), 0), <<>>)
      [] id = "twofats" ->
            \* FAT copies at LBA 1 and LBA 2, the root directory at LBA 3
            Device(FatDevSectors, TwoFatBoot,
                   FatSector(Reserved01 @@ (2 :> 268435455), 0),
                   <<FatSector(Reserved01 @@ (2 :> 268435455), 0)>>)
      [] id = "ones" ->
            \* two FAT copies, every byte of both 0xFF: reserved bits set
            Device(FatDevSectors, TwoFatBoot,
                   [i \in Offsets |-> 255], <<[i \in Offsets |-> 255]>>)

FatClusters == {0, 2, 3, 127, 128, 129, 256, 640}

FatValues ==
    {Wide(0, 0), Wide(0, 5), Wide(4095, 65535), Wide(4096, 0), Wide(61440, 1),
     Wide(65535, 65535), Wide(32768, 3)}

InitFat ==
    /\ image \in FatImageIds
    /\ dev = FatImage(image)
    /\ fs = BpbParse(FatImage(image)[0]).val
    /\ pc = "fat"
    /\ walk = 0
    /\ call = NoCall
    /\ result = NoResult
    /\ lastList = Err("none")
    /\ lastWrite = NoWrite
    /\ nwrites = 0
    /\ arg = [cluster |-> 0, value |-> WideZero]
    /\ ret = NotApplied

WriteFatEntry(cluster, value) ==
    /\ pc = "fat"
    /\ nwrites < MaxFatWrites
    /\ LET w == write_fat_entry_u32(dev, fs, cluster, value)
       IN  /\ dev' = IF w.tag = "Ok" THEN w.val ELSE dev
           /\ ret' = [op |-> "write_fat_entry", res |-> IF w.tag = "Ok" THEN Ok(0) ELSE w]
    /\ arg' = [cluster |-> cluster, value |-> value]
    /\ nwrites' = nwrites + 1
    /\ UNCHANGED <<image, fs, pc, walk, call, result, lastList, lastWrite>>

ReadFatEntry(cluster) ==
    /\ pc = "fat"
    /\ ret' = [op |-> "read_fat_entry", res |-> read_fat_entry(dev, fs, cluster)]
    /\ arg' = [cluster |-> cluster, value |-> arg.value]
    /\ UNCHANGED volume

NextFat ==
    \/ \E cluster \in FatClusters, value \in FatValues : WriteFatEntry(cluster, value)
    \/ \E cluster \in FatClusters : ReadFatEntry(cluster)

SpecFat == InitFat /\ [][NextFat]_vars

\* value & 0x0FFFFFFF
Masked28(value) == (value.hi % 4096) * 65536 + value.lo

\* the sector that holds the FAT entry of a cluster, and the entry's offset
EntrySector(b, cluster) == b.reserved_sectors + (cluster * 4) \div SectorSize

EntryOffset(cluster) == (cluster * 4) % SectorSize

\* the sectors of the FAT copies after the first
OtherFatCopies(b) ==
    (b.reserved_sectors + b.fat_size_32)..(b.reserved_sectors + b.num_fats * b.fat_size_32 - 1)

\* a step in which write_fat_entry returned Ok
FatWriteOk == ret'.op = "write_fat_entry" /\ ret'.res.tag = "Ok" /\ nwrites' = nwrites + 1

\* C17: after write_fat_entry(cluster, value) succeeds, read_fat_entry(cluster)
\* returns value & 0x0FFFFFFF and the top 4 bits of the stored word are 0; the
\* FAT entry of every other cluster, every sector but the one that holds the
\* entry, and every FAT copy after the first are unchanged; read_fat_entry
\* never returns a value above 0x0FFFFFFF.
C17_FatEntryWriteRead ==
    [][/\ FatWriteOk
          => /\ read_fat_entry(dev', fs, arg'.cluster) = Ok(Masked28(arg'.value))
             /\ dev'[EntrySector(fs, arg'.cluster)][EntryOffset(arg'.cluster) + 3] < 16
             /\ \A x \in 0..(NumSectors(dev) * 128 - 1) :
                    x # arg'.cluster => read_fat_entry(dev', fs, x) = read_fat_entry(dev, fs, x)
             /\ \A lba \in DOMAIN dev :
                    lba # EntrySector(fs, arg'.cluster) => dev'[lba] = dev[lba]
             /\ \A lba \in OtherFatCopies(fs) : dev'[lba] = dev[lba]
       /\ (ret'.op = "read_fat_entry" /\ ret'.res.tag = "Ok") => ret'.res.val <= FatMask]_vars

(***************************************************************************)
(* list_root on its own, over root directories drawn from a bounded set:   *)
(* one or two sectors per cluster, a root chain of one or two clusters     *)
(* that ends in an end-of-chain value or in a successor below 2, and       *)
(* sectors whose first slots are of every kind.                            *)
(***************************************************************************)
SlotKinds == {"file", "empty", "tomb", "lfn", "end"}

ChainShapes == {"single", "eoc8", "two", "low1", "free", "twolow"}

\* the slot of a kind at position k of directory sector s
SlotOf(kind, k, s) ==
    CASE kind = "file" -> FileSlot(ShortA, 10 * (s + 1) + k, 100 + k)
      [] kind = "empty" -> EmptyFileSlot(k)
      [] kind = "tomb" -> Tombstone(ShortA, 5, 10)
      [] kind = "lfn" -> LfnSlot
      [] kind = "end" -> [i \in 0..(SlotSize - 1) |-> 0]

\* a directory sector: the slots of the given kinds, then long-name parts
\* (fill "lfn") or zeros to the end of the sector
KindSector(prefix, fill, s) ==
    [i \in Offsets |->
        IF (i \div SlotSize) < Len(prefix)
        THEN SlotOf(prefix[(i \div SlotSize) + 1], (i \div SlotSize) + 1, s)[i % SlotSize]
        ELSE IF fill = "lfn" THEN LfnSlot[i % SlotSize] ELSE 0]

ShapeFat(shape) ==
    CASE shape = "single" -> FatSector(Reserved01 @@ (2 :> 268435455), 0)
      [] shape = "eoc8" -> FatSector(Reserved01 @@ (2 :> 268435448), 0)
      [] shape = "two" -> FatSector(Reserved01 @@ (2 :> 3) @@ (3 :> 268435455), 0)
      [] shape = "low1" -> FatSector(Reserved01 @@ (2 :> 1), 0)
      [] shape = "free" -> FatSector(Reserved01 @@ (2 :> 0), 0)
      [] shape = "twolow" -> FatSector(Reserved01 @@ (2 :> 3) @@ (3 :> 1), 0)

ListArgs ==
    [spc : {1}, shape : ChainShapes, a : SeqsUpTo(SlotKinds, MaxDirPrefix),
     afill : {"lfn", "end"}, b : {<<>>, <<"tomb", "file">>}, bfill : {"end"}]
    \cup [spc : {1}, shape : ChainShapes, a : SeqsUpTo(SlotKinds, MaxDirPrefix),
          afill : {"lfn", "end"}, b : {<<"file">>}, bfill : {"lfn"}]
    \cup [spc : {2}, shape : {"two", "twolow"}, a : SeqsUpTo(SlotKinds, MaxDirPrefix),
          afill : {"lfn", "end"}, b : {<<>>, <<"tomb", "file">>}, bfill : {"end", "lfn"}]

\* cluster 2 starts with sector a, cluster 3 ends with sector b, the sectors
\* between them are full of long-name parts
ListImage(x) ==
    Device(ListDevSectors, BootSector(x.spc, ListDevSectors), ShapeFat(x.shape),
           [j \in 1..(2 * x.spc) |->
               IF j = 1 THEN KindSector(x.a, x.afill, 0)
               ELSE IF j = 2 * x.spc THEN KindSector(x.b, x.bfill, 1)
               ELSE KindSector(<<>>, "lfn", 2)])

InitList ==
    /\ image = "none"
    /\ arg \in ListArgs
    /\ dev = ListImage(arg)
    /\ fs = BpbParse(BootSector(arg.spc, ListDevSectors)).val
    /\ pc = "dir"
    /\ walk = 0
    /\ call = NoCall
    /\ result = NoResult
    /\ lastList = Err("none")
    /\ lastWrite = NoWrite
    /\ nwrites = 0
    /\ ret = NotApplied

ListOnce ==
    /\ pc = "dir"
    /\ ret = NotApplied
    /\ ret' = [op |-> "list_root", res |-> list_root(dev, fs)]
    /\ UNCHANGED <<volume, arg>>

NextList == ListOnce

SpecList == InitList /\ [][NextList]_vars

\* the clusters a walk from c visits and how it ends: "end" at an
\* end-of-chain value, "low" at a successor below 2
RECURSIVE WalkFrom(_, _, _, _)
WalkFrom(d, b, c, fuel) ==
    IF fuel = 0 THEN [clusters |-> <<>>, last |-> "fuel"]
    ELSE IF FatEntryAt(d, b, c) >= EOC_MIN THEN [clusters |-> <<c>>, last |-> "end"]
    ELSE IF FatEntryAt(d, b, c) < 2 THEN [clusters |-> <<c>>, last |-> "low"]
    ELSE [clusters |-> <<c>> \o WalkFrom(d, b, FatEntryAt(d, b, c), fuel - 1).clusters,
          last |-> WalkFrom(d, b, FatEntryAt(d, b, c), fuel - 1).last]

RootWalk(d, b) == WalkFrom(d, b, b.root_cluster, NumSectors(d))

\* the slots of the clusters of the walk, in on-disk order
WalkSlots(d, b) ==
    [n \in 1..(Len(RootWalk(d, b).clusters) * b.sectors_per_cluster * SlotsPerSector) |->
        Slice(d[data_start_lba(b)
                + (RootWalk(d, b).clusters[((n - 1) \div (b.sectors_per_cluster * SlotsPerSector)) + 1] - 2)
                  * b.sectors_per_cluster
                + ((n - 1) % (b.sectors_per_cluster * SlotsPerSector)) \div SlotsPerSector],
              ((n - 1) % SlotsPerSector) * SlotSize, SlotSize)]

\* the position of the first EndOfDirectory slot, or one past the last slot
FirstEnd(slots) ==
    IF \E n \in 1..Len(slots) : slots[n][0] = 0
    THEN CHOOSE n \in 1..Len(slots) : slots[n][0] = 0 /\ \A m \in 1..(n - 1) : slots[m][0] # 0
    ELSE Len(slots) + 1

IsShortSlot(rec) == rec[0] # 229 /\ rec[11] # 15

ShortEntryOf(rec) ==
    [raw_name |-> [k \in 0..10 |-> rec[k]],
     attr |-> rec[11],
     first_cluster |-> Wide(rec[20] + 256 * rec[21], rec[26] + 256 * rec[27]),
     file_size |-> Wide(rec[30] + 256 * rec[31], rec[28] + 256 * rec[29])]

RECURSIVE ShortEntries(_, _, _)
ShortEntries(slots, n, last) ==
    IF n > last THEN <<>>
    ELSE IF IsShortSlot(slots[n]) THEN <<ShortEntryOf(slots[n])>> \o ShortEntries(slots, n + 1, last)
    ELSE ShortEntries(slots, n + 1, last)

ExpectedListing(d, b) == ShortEntries(WalkSlots(d, b), 1, FirstEnd(WalkSlots(d, b)) - 1)

\* C18: list_root returns exactly the short entries before the first
\* EndOfDirectory slot along the root chain, in on-disk order, without the
\* Tombstone and LongNamePart slots; nothing after the first EndOfDirectory
\* slot is returned; a walk that meets no such slot ends successfully at an
\* end-of-chain value and fails with Corrupt at a successor below 2.
C18_ListRootWalk ==
    ret.op = "list_root"
    => IF FirstEnd(WalkSlots(dev, fs)) <= Len(WalkSlots(dev, fs))
          \/ RootWalk(dev, fs).last = "end"
       THEN ret.res = Ok(ExpectedListing(dev, fs))
       ELSE RootWalk(dev, fs).last = "low" /\ ret.res = Err("Corrupt")

C18_Witness ==
    /\ ret.op = "list_root"
    /\ arg.spc = 2
    /\ arg.shape = "two"
    /\ arg.a = <<"tomb", "file">>
    /\ arg.afill = "lfn"
    /\ arg.b = <<"tomb", "file">>
    /\ arg.bfill = "end"
    /\ ret.res.tag = "Ok"
    /\ Len(ret.res.val) = 2
    /\ ret.res.val[1].first_cluster = Wide(0, 12)
    /\ ret.res.val[2].first_cluster = Wide(0, 22)

(***************************************************************************)
(* The directory entry codec on its own: build_short_file, DirEntry::parse *)
(* of its record, and list_root of a root directory that holds the record. *)
(***************************************************************************)
CodecNames ==
    {to_short_name_83(n).val :
        n \in {NameHello, NameA, <<45>>, <<95, 57, 46, 122>>,
               <<49, 50, 51, 52, 53, 54, 55, 56, 46, 97, 98, 99>>}}

CodecHalves == {0, 2, 256, 32768, 65535}

CodecArgs ==
    [name : CodecNames, first_cluster : [hi : CodecHalves, lo : CodecHalves],
     file_size : [hi : CodecHalves, lo : CodecHalves]]

InitCodec == NoVolume /\ arg \in CodecArgs /\ ret = NotApplied

Encode ==
    /\ ret = NotApplied
    /\ ret' = [op |-> "build_short_file",
               res |-> Ok(build_short_file_u32(arg.name, arg.first_cluster, arg.file_size))]
    /\ UNCHANGED <<volume, arg>>

Decode ==
    /\ ret.op = "build_short_file"
    /\ ret' = [op |-> "parse", res |-> DirEntryParse(ret.res.val)]
    /\ UNCHANGED <<volume, arg>>

\* list_root of the test image with the record in slot 0 of the root directory
ListEncoded ==
    /\ ret.op = "build_short_file"
    /\ ret' = [op |-> "list_root",
               res |-> list_root(Device(SmallSectors, BootSector(1, SmallSectors),
                                        FatSector(Reserved01 @@ (2 :> 268435455), 0),
                                        <<DirSector(<<ret.res.val>>)>>),
                                 BpbParse(BootSector(1, SmallSectors)).val)]
    /\ UNCHANGED <<volume, arg>>

NextCodec == Encode \/ Decode \/ ListEncoded

SpecCodec == InitCodec /\ [][NextCodec]_vars

\* C19: for every normalized name, first cluster and size, parse of the record
\* build_short_file produces yields an entry with the same name, attribute
\* 0x20, the same first cluster and the same size (so not an end, a deleted or
\* a long-name slot), and list_root of a directory that holds the record
\* returns that entry.
C19_CodecRoundTrip ==
    /\ ret.op = "parse"
       => ret.res = Ok(<<[raw_name |-> arg.name, attr |-> 32,
                          first_cluster |-> arg.first_cluster,
                          file_size |-> arg.file_size]>>)
    /\ ret.op = "list_root"
       => ret.res = Ok(<<[raw_name |-> arg.name, attr |-> 32,
                          first_cluster |-> arg.first_cluster,
                          file_size |-> arg.file_size]>>)

C19_Witness ==
    /\ ret.op = "parse"
    /\ arg.first_cluster = Wide(65535, 32768)
    /\ arg.file_size = Wide(32768, 256)
    /\ ret.res.tag = "Ok"
    /\ Len(ret.res.val) = 1
    /\ ret.res.val[1].first_cluster.hi = 65535

\* the clusters the FAT describes that are not free in d
NonFree(d, b) == {x \in 2..(b.fat_size_32 * 128 - 1) : FatEntryAt(d, b, x) # 0}

\* sector `after` is sector `before` with the record in one slot that was free
OneSlotFilled(before, after, rec) ==
    \E n \in 0..(SlotsPerSector - 1) :
        /\ before[n * SlotSize] = 0 \/ before[n * SlotSize] = 229
        /\ after = copy_from_slice(before, n * SlotSize, SlotSize, rec)

\* the clusters of the file an entry of a listing names
FileClusters(d, b, e) ==
    IF e.first_cluster.hi # 0 THEN {}
    ELSE {ChainOf(d, b, e.first_cluster.lo, NumSectors(d))[i] :
              i \in 1..Len(ChainOf(d, b, e.first_cluster.lo, NumSectors(d)))}

\* C20: write_file_root allocates only clusters whose FAT entry was 0, in
\* strictly ascending order; it leaves the FAT entry of every cluster that was
\* not free unchanged, and the data sectors of such a cluster too, but for the
\* directory slot that receives the new entry; on a volume reached from a
\* fresh one by writes, no two listed files share a cluster, and after a
\* successful write of one name read_file_root of the different name written
\* before still returns that name's content.
C20_FilesDoNotDisturb ==
    [][WriteStep
       => /\ \A i \in 1..Len(result'.chain) : FatEntryAt(dev, fs, result'.chain[i]) = 0
          /\ \A i, j \in 1..Len(result'.chain) : i < j => result'.chain[i] < result'.chain[j]
          /\ \A x \in NonFree(dev, fs) :
                 /\ FatEntryAt(dev', fs, x) = FatEntryAt(dev, fs, x)
                 /\ \A s \in 0..(fs.sectors_per_cluster - 1) :
                        (cluster_to_lba(fs, x) + s) \in DOMAIN dev
                        => \/ dev'[cluster_to_lba(fs, x) + s] = dev[cluster_to_lba(fs, x) + s]
                           \/ /\ result'.chain # <<>>
                              /\ OneSlotFilled(dev[cluster_to_lba(fs, x) + s],
                                               dev'[cluster_to_lba(fs, x) + s], WrittenRecord)
          /\ (image \in FreshIds /\ pc' = "ready")
             => /\ list_root(dev', fs).tag = "Ok"
                /\ \A i, j \in 1..Len(list_root(dev', fs).val) :
                       i # j => FileClusters(dev', fs, list_root(dev', fs).val[i])
                                  \cap FileClusters(dev', fs, list_root(dev', fs).val[j]) = {}
          /\ (/\ image \in FreshIds
              /\ result'.tag = "Ok"
              /\ call'.prior.content # <<>>
              /\ to_short_name_83(call'.prior.name) # to_short_name_83(call'.name))
             => \A checked \in BOOLEAN :
                    read_file_root(dev', fs, call'.prior.name, checked) = Ok(call'.prior.content)]_vars

\* the sectors of the first FAT copy
FirstFatCopy(b) == b.reserved_sectors..(b.reserved_sectors + b.fat_size_32 - 1)

\* C21: in every write_file_root call the cluster the first scan of
\* find_free_cluster returns, and every cluster the call allocates, has a
\* number below fat_size_32 * 128, and the sector that holds its FAT entry,
\* which the reservation and linking steps write, is a sector of the first
\* FAT copy.
C21_AllocationInsideFat ==
    [][WriteStep
       => /\ find_free_cluster(dev, fs, 2).tag = "Ok"
             => find_free_cluster(dev, fs, 2).val < fs.fat_size_32 * 128
          /\ \A i \in 1..Len(result'.chain) :
                 /\ result'.chain[i] < fs.fat_size_32 * 128
                 /\ EntrySector(fs, result'.chain[i]) \in FirstFatCopy(fs)]_vars

====
